---- MODULE Spec2Model ----
(***************************************************************************)
(* Model of the Excel part search engine (src/app.py, class               *)
(* ExcelSearchApp): discovery and indexing of workbooks, the per-file     *)
(* cache, the stock table and the two searches.                           *)
(*                                                                         *)
(* Text is a sequence of one-character strings, so that strip(), upper(), *)
(* split() and the "in" test of Python are computed and not assumed.      *)
(* A missing cell (pandas NaN) is the one-element sequence NaN.           *)
(***************************************************************************)
EXTENDS Integers, Sequences, FiniteSets, TLC

\* ------------------------------------------------------------------ text

LowerLetters == <<"a","b","c","d","e","f","g","h","i","j","k","l","m",
                  "n","o","p","q","r","s","t","u","v","w","x","y","z">>
UpperLetters == <<"A","B","C","D","E","F","G","H","I","J","K","L","M",
                  "N","O","P","Q","R","S","T","U","V","W","X","Y","Z">>

\* str.upper() and str.lower(), one character at a time
UpperChar(c) ==
    IF \E i \in 1..Len(LowerLetters) : LowerLetters[i] = c
    THEN UpperLetters[CHOOSE i \in 1..Len(LowerLetters) : LowerLetters[i] = c]
    ELSE c

LowerChar(c) ==
    IF \E i \in 1..Len(UpperLetters) : UpperLetters[i] = c
    THEN LowerLetters[CHOOSE i \in 1..Len(UpperLetters) : UpperLetters[i] = c]
    ELSE c

Upper(s) == [i \in 1..Len(s) |-> UpperChar(s[i])]

Lower(s) == [i \in 1..Len(s) |-> LowerChar(s[i])]

IsSpace(c) == c = " "

\* str.strip(): drops the white space at both ends
RECURSIVE LStrip(_)
LStrip(s) == IF s # <<>> /\ IsSpace(Head(s)) THEN LStrip(Tail(s)) ELSE s

RECURSIVE RStrip(_)
RStrip(s) ==
    IF s # <<>> /\ IsSpace(s[Len(s)]) THEN RStrip(SubSeq(s, 1, Len(s) - 1)) ELSE s

Strip(s) == RStrip(LStrip(s))

\* Python's "sub in s"
Contains(sub, s) ==
    \E i \in 0..(Len(s) - Len(sub)) : SubSeq(s, i + 1, i + Len(sub)) = sub

\* str.split(sep) with a non-empty separator: left to right, not overlapping
RECURSIVE SplitFrom(_, _, _)
SplitFrom(s, sep, cur) ==
    IF s = <<>> THEN <<cur>>
    ELSE IF Len(s) >= Len(sep) /\ SubSeq(s, 1, Len(sep)) = sep
         THEN <<cur>> \o SplitFrom(SubSeq(s, Len(sep) + 1, Len(s)), sep, <<>>)
         ELSE SplitFrom(Tail(s), sep, Append(cur, Head(s)))

Split(s, sep) == SplitFrom(s, sep, <<>>)

\* str.split() without a separator: the words between runs of white space
RECURSIVE WordsFrom(_, _)
WordsFrom(s, cur) ==
    IF s = <<>> THEN (IF cur = <<>> THEN <<>> ELSE <<cur>>)
    ELSE IF IsSpace(Head(s))
         THEN (IF cur = <<>> THEN <<>> ELSE <<cur>>) \o WordsFrom(Tail(s), <<>>)
         ELSE WordsFrom(Tail(s), Append(cur, Head(s)))

Words(s) == WordsFrom(s, <<>>)

Last(q) == q[Len(q)]

\* pandas NaN, the value of a blank cell; pd.notna(c) is c # NaN
NaN == <<"NaN">>

\* os.path.splitext(name)[0]: the name up to its last dot (a leading dot is no extension)
SplitExtRoot(name) ==
    LET dots == {i \in 2..Len(name) : name[i] = "."}
    IN IF dots = {} THEN name
       ELSE SubSeq(name, 1, (CHOOSE i \in dots : \A j \in dots : j <= i) - 1)

extract_simple_filename(filename) ==
    LET name_without_ext == SplitExtRoot(filename)
    IN IF Contains(<<" ", "-", " ">>, name_without_ext)
       THEN Last(Split(name_without_ext, <<" ", "-", " ">>))
       ELSE name_without_ext


\* ------------------------------------------------- the files on disk

\* The workbooks that can lie under data/; those of StockFilesAll lie in data/stok/
DataFilesAll == {"f1", "f2", "f3"}
StockFilesAll == {"s1", "s2", "s3"}
OtherFilesAll == {"n1"}
AllFiles == DataFilesAll \cup StockFilesAll \cup OtherFilesAll

FileName(f) ==
    CASE f = "f1" -> <<"A"," ","-"," ","G",".","x","l","s","x">>
      [] f = "f2" -> <<"B"," ","-"," ","G",".","x","l","s","m">>
      [] f = "f3" -> <<"M",".","X","L","S","X">>
      [] f = "s1" -> <<"s","1",".","x","l","s","x">>
      [] f = "s2" -> <<"s","2",".","x","l","s">>
      [] f = "s3" -> <<"s","3",".","x","l","s","x">>
      [] f = "n1" -> <<"n",".","t","x","t">>

\* the directory of the file below data/ ("" is data/ itself)
FileDir(f) == IF f \in StockFilesAll THEN "stok" ELSE ""

\* the number of contents a file takes in the model (disk[f] = 0: not there)
NumVersions(f) == IF f = "f3" THEN 2 ELSE 1

\* os.stat(): size and modification time of version v of file f
FileStat(f, v) == [st_size |-> 10 * v, st_mtime |-> v]

Row5(a, b, c, d, e) == <<a, b, c, d, e>>
PartRow(pn, name, qty) == <<NaN, pn, NaN, name, qty>>

\* The content of version v of file f: readable or not, and its sheets, each
\* with its column count and its data rows (the header row is not a data row)
Workbook(f, v) ==
    CASE f = "f1" ->
           [readable |-> TRUE, sheets |-> <<
             [name |-> "S1", ncols |-> 5, rows |-> <<
                PartRow(NaN, <<"o","i","l"," ","s","e","a","l">>, <<"1">>),
                PartRow(<<" ","x","1","a"," ">>, <<"O","i","l"," ","P","u","m","p">>, <<"5">>),
                PartRow(<<"X","1","A">>, <<"a","b"," ","n","u","t">>, NaN) >>],
             [name |-> "S2", ncols |-> 5, rows |-> <<
                PartRow(<<"x","1","2">>, <<"p","u","m","p">>, <<"2">>) >>],
             [name |-> "S3", ncols |-> 3, rows |-> <<
                <<NaN, <<"x","1">>, NaN>> >>] >>]
      [] f = "f2" ->
           [readable |-> TRUE, sheets |-> <<
             [name |-> "S1", ncols |-> 5, rows |-> <<
                PartRow(<<"y","2">>, NaN, <<"1">>),
                PartRow(<<"x","1">>, <<"o","i","l"," ","p","u","m","p"," ","k","i","t">>, <<"3">>) >>] >>]
      [] f = "f3" /\ v = 1 ->
           [readable |-> TRUE, sheets |-> <<
             [name |-> "S1", ncols |-> 5, rows |-> <<
                PartRow(<<"x","1">>, <<"p","u","m","p">>, <<"4">>) >>] >>]
      [] f = "f3" /\ v # 1 ->
           [readable |-> TRUE, sheets |-> <<
             [name |-> "S1", ncols |-> 5, rows |-> <<
                PartRow(<<"z","3">>, <<"p","u","m","p">>, <<"4">>) >>] >>]
      [] f = "s1" ->
           [readable |-> TRUE, sheets |-> <<
             [name |-> "S1", ncols |-> 4, rows |-> <<
                <<<<"Q","t","y"," ","x">>, NaN, NaN, <<"9">>>>,
                <<<<"0","1",".","x","1">>, NaN, NaN, <<" ","4","2"," ">>>>,
                <<<<" ","y","2"," ">>, NaN, NaN, NaN>>,
                <<NaN, NaN, NaN, <<"5">>>>,
                <<<<"0",".","n","/","a">>, NaN, NaN, <<"7">>>>,
                <<<<"a","."," ">>, NaN, NaN, <<"3">>>> >>] >>]
      [] f = "s2" ->
           [readable |-> TRUE, sheets |-> <<
             [name |-> "S1", ncols |-> 5, rows |-> <<
                Row5(<<"x","1">>, <<"x","1">>, NaN, <<"8">>, NaN),
                Row5(<<"b",".","c","."," ","z","3"," ">>, NaN, NaN, <<"6">>, NaN) >>] >>]
      [] OTHER -> [readable |-> FALSE, sheets |-> <<>>]

\* any(file.lower().endswith(ext) for ext in excel_extensions)
excel_extensions == << <<".","x","l","s","x">>, <<".","x","l","s">>, <<".","x","l","s","m">> >>

EndsWith(s, suffix) ==
    Len(s) >= Len(suffix) /\ SubSeq(s, Len(s) - Len(suffix) + 1, Len(s)) = suffix

IsExcelName(name) ==
    \E i \in 1..Len(excel_extensions) : EndsWith(Lower(name), excel_extensions[i])

\* ------------------------------------------------- process_single_file

\* None, and the empty list, of Python
None == <<>>

\* a variant that digests the path alone
get_file_hash_of_path(dsk, f) ==
    IF dsk[f] = 0 THEN None ELSE <<f, 0, 0>>

\* get_file_hash: the digest of "path_size_mtime", None when the file cannot
\* be stat'ed.  The digest is modelled by the triple it digests.
get_file_hash(dsk, f) ==
    IF dsk[f] = 0 THEN None
    ELSE <<f, FileStat(f, dsk[f]).st_size, FileStat(f, dsk[f]).st_mtime>>

\* a cache file that pickle.load cannot read
Corrupt == <<[unreadable |-> TRUE]>>

\* load_file_cache: the entry stored under the hash, None without one and
\* None when it cannot be read
load_file_cache(cch, file_hash) ==
    IF file_hash \in DOMAIN cch /\ cch[file_hash] # Corrupt THEN cch[file_hash] ELSE None

\* save_file_cache: the store with the entry written
save_file_cache(cch, file_hash, data) ==
    [h \in (DOMAIN cch) \cup {file_hash} |-> IF h = file_hash THEN data ELSE cch[h]]

\* Python dict as a sequence of [key, rows] in insertion order:
\* d.setdefault(key, []).append(idx)
HasKey(d, key) == \E i \in 1..Len(d) : d[i].key = key

DictAppend(d, key, idx) ==
    IF HasKey(d, key)
    THEN [i \in 1..Len(d) |->
            IF d[i].key = key THEN [key |-> key, rows |-> Append(d[i].rows, idx)]
            ELSE d[i]]
    ELSE Append(d, [key |-> key, rows |-> <<idx>>])

DictGet(d, key) == d[CHOOSE i \in 1..Len(d) : d[i].key = key].rows

\* read_excel(usecols=[1, 3, 4], dtype=str): columns B, D, E of every data row
ReadColumns(sheet) ==
    [i \in 1..Len(sheet.rows) |->
        [part_number |-> sheet.rows[i][2],
         part_name   |-> sheet.rows[i][4],
         quantity    |-> sheet.rows[i][5]]]

\* lines 212-219: the part number index of rows idx.. of the dataframe
RECURSIVE BuildPartNumberIndex(_, _, _)
BuildPartNumberIndex(df, idx, index) ==
    IF idx >= Len(df) THEN index
    ELSE LET cell == df[idx + 1].part_number
             part_num == IF cell # NaN THEN Upper(Strip(cell)) ELSE <<>>
         IN BuildPartNumberIndex(df, idx + 1,
                IF part_num # <<>> THEN DictAppend(index, part_num, idx) ELSE index)

\* lines 223-227: every word longer than 2 characters is indexed
RECURSIVE IndexWords(_, _, _)
IndexWords(words, idx, index) ==
    IF words = <<>> THEN index
    ELSE IndexWords(Tail(words), idx,
            IF Len(Head(words)) > 2 THEN DictAppend(index, Head(words), idx) ELSE index)

\* lines 221-227: the part name word index
RECURSIVE BuildPartNameIndex(_, _, _)
BuildPartNameIndex(df, idx, index) ==
    IF idx >= Len(df) THEN index
    ELSE LET cell == df[idx + 1].part_name
             part_name == IF cell # NaN THEN Upper(Strip(cell)) ELSE <<>>
         IN BuildPartNameIndex(df, idx + 1,
                IF part_name # <<>> THEN IndexWords(Words(part_name), idx, index) ELSE index)

\* lines 229-241: the record of one sheet
FileInfo(f, v, sheet) ==
    LET df == ReadColumns(sheet)
    IN [full_path     |-> <<"data", FileDir(f), FileName(f)>>,
        file_name     |-> FileName(f),
        relative_path |-> <<FileDir(f), FileName(f)>>,
        simple_name   |-> extract_simple_filename(FileName(f)),
        sheet         |-> sheet.name,
        dataframe     |-> df,
        row_count     |-> Len(df),
        part_number_index |-> BuildPartNumberIndex(df, 0, <<>>),
        part_name_index   |-> BuildPartNameIndex(df, 0, <<>>),
        last_modified |-> FileStat(f, v).st_mtime]

\* a variant that gives up the whole workbook at the first sheet that fails
ParseSheetsAllOrNothing(f, v, sheets) ==
    IF \E i \in 1..Len(sheets) : sheets[i].ncols < 5 THEN <<>>
    ELSE [i \in 1..Len(sheets) |-> FileInfo(f, v, sheets[i])]

\* lines 195-246: a sheet without the columns 1, 3, 4 raises and is skipped
RECURSIVE ParseSheets(_, _, _)
ParseSheets(f, v, sheets) ==
    IF sheets = <<>> THEN <<>>
    ELSE (IF Head(sheets).ncols >= 5 THEN <<FileInfo(f, v, Head(sheets))>> ELSE <<>>)
         \o ParseSheets(f, v, Tail(sheets))

\* lines 191-249: a file that cannot be opened gives no record
ParseFile(dsk, f) ==
    IF dsk[f] = 0 \/ ~Workbook(f, dsk[f]).readable THEN <<>>
    ELSE ParseSheets(f, dsk[f], Workbook(f, dsk[f]).sheets)

\* process_single_file: the records of the file and the cache store it leaves
process_single_file(dsk, cch, f) ==
    LET file_hash == get_file_hash(dsk, f)
        cached_data == IF file_hash # None THEN load_file_cache(cch, file_hash) ELSE None
        results == ParseFile(dsk, f)
    IN IF cached_data # None
       THEN [results |-> cached_data, cache |-> cch]
       ELSE [results |-> results,
             cache |-> IF file_hash # None /\ results # <<>>
                       THEN save_file_cache(cch, file_hash, results) ELSE cch]


\* ------------------------------------------------- the stock table

skip_keywords == << <<"k","o","d","e">>, <<"b","a","r","a","n","g">>, <<"t","o","t","a","l">>,
                    <<"n","a","m","a">>, <<"g","u","d","a","n","g">>, <<"p","a","r","t">>,
                    <<"n","u","m","b","e","r">>, <<"s","t","o","c","k">>, <<"q","t","y">> >>

\* a Python dict of the stock table: a function from keys to stock values
DictPut(d, key, val) ==
    [k \in (DOMAIN d) \cup {key} |-> IF k = key THEN val ELSE d[k]]

\* a variant that keeps the first value of a key
StockRowFirstWins(db, row) ==
    LET part_num_full == IF row[1] = NaN THEN <<>> ELSE Strip(row[1])
        stock_val == IF row[4] = NaN THEN <<"0">> ELSE Strip(row[4])
        part_num_clean ==
            IF Contains(<<".">>, part_num_full)
            THEN Upper(Strip(Last(Split(part_num_full, <<".">>))))
            ELSE Upper(Strip(part_num_full))
    IN IF part_num_full = <<>> THEN db
       ELSE IF \E i \in 1..Len(skip_keywords) : Contains(skip_keywords[i], Lower(part_num_full))
       THEN db
       ELSE IF part_num_clean = <<>> \/ part_num_clean \in DOMAIN db THEN db
       ELSE DictPut(db, part_num_clean, stock_val)

\* lines 399-403 and 406-429: one row of a stock workbook put into the table
StockRow(db, row) ==
    LET part_num_full == IF row[1] = NaN THEN <<>> ELSE Strip(row[1])
        stock_val == IF row[4] = NaN THEN <<"0">> ELSE Strip(row[4])
        part_num_clean ==
            IF Contains(<<".">>, part_num_full)
            THEN Upper(Strip(Last(Split(part_num_full, <<".">>))))
            ELSE Upper(Strip(part_num_full))
    IN IF part_num_full = <<>> THEN db
       ELSE IF \E i \in 1..Len(skip_keywords) : Contains(skip_keywords[i], Lower(part_num_full))
       THEN db
       ELSE IF part_num_clean = <<>> THEN db
       ELSE DictPut(db, part_num_clean, stock_val)

RECURSIVE StockRows(_, _)
StockRows(db, rows) ==
    IF rows = <<>> THEN db ELSE StockRows(StockRow(db, Head(rows)), Tail(rows))

\* lines 383-433: one stock workbook; read_excel(usecols=[0, 3]) reads its first
\* sheet and raises, so that the file is skipped, without the columns 0 and 3
StockFile(dsk, db, f) ==
    LET wb == Workbook(f, dsk[f])
    IN IF dsk[f] = 0 \/ ~wb.readable \/ wb.sheets = <<>> THEN db
       ELSE IF wb.sheets[1].ncols < 4 THEN db
       ELSE StockRows(db, wb.sheets[1].rows)

RECURSIVE StockFiles(_, _, _)
StockFiles(dsk, db, stock_files) ==
    IF stock_files = <<>> THEN db
    ELSE StockFiles(dsk, StockFile(dsk, db, Head(stock_files)), Tail(stock_files))

\* load_stock_database over the workbooks of data/stok/ in the order iterdir()
\* gives them: the table is reset, then filled file by file
load_stock_database(dsk, stock_files) == StockFiles(dsk, <<>>, stock_files)

\* a variant with the partial match of keys
get_stock_partial(db, part_number) ==
    IF DOMAIN db = {} THEN <<"0">>
    ELSE IF part_number = <<>> \/ part_number = <<"N","/","A">> THEN <<"0">>
    ELSE LET search_key == Upper(Strip(part_number))
             near == {k \in DOMAIN db : Contains(search_key, k) \/ Contains(k, search_key)}
         IN IF search_key \in DOMAIN db THEN db[search_key]
            ELSE IF near # {} THEN db[CHOOSE k \in near : TRUE]
            ELSE <<"0">>

\* get_stock_from_database
get_stock_from_database(db, part_number) ==
    IF DOMAIN db = {} THEN <<"0">>
    ELSE IF part_number = <<>> \/ part_number = <<"N","/","A">> THEN <<"0">>
    ELSE LET search_key == Upper(Strip(part_number))
         IN IF search_key \in DOMAIN db THEN db[search_key] ELSE <<"0">>

\* ------------------------------------------------- the searches

NA == <<"N","/","A">>

CellText(cell) == IF cell # NaN THEN cell ELSE NA

\* lines 496-511 and 553-570: the result row of row idx of a record
MatchOf(db, file_info, idx) ==
    LET row == file_info.dataframe[idx + 1]
        part_num == CellText(row.part_number)
    IN [File        |-> file_info.simple_name,
        Path        |-> file_info.relative_path,
        Sheet       |-> file_info.sheet,
        PartNumber  |-> part_num,
        PartName    |-> CellText(row.part_name),
        Quantity    |-> CellText(row.quantity),
        Stock       |-> get_stock_from_database(db, part_num),
        ExcelRow    |-> idx + 2,
        FullPath    |-> file_info.full_path]

\* a variant that takes only a key equal to the term
FirstKeyEqual(index, term) ==
    LET hits == {i \in 1..Len(index) : index[i].key = term}
    IN IF hits = {} THEN 0 ELSE CHOOSE i \in hits : \A j \in hits : i <= j

\* lines 490-515: the first key of the index, in insertion order, that contains the term
FirstKeyWith(index, term) ==
    LET hits == {i \in 1..Len(index) : Contains(term, index[i].key)}
    IN IF hits = {} THEN 0 ELSE CHOOSE i \in hits : \A j \in hits : i <= j

\* a variant that forgets the names already found
RECURSIVE PartNumberLoopNoNames(_, _, _, _)
PartNumberLoopNoNames(files, db, term, processed_files) ==
    IF files = <<>> THEN <<>>
    ELSE LET file_info == Head(files)
             k == FirstKeyWith(file_info.part_number_index, term)
         IN IF k = 0
            THEN PartNumberLoopNoNames(Tail(files), db, term, processed_files)
            ELSE <<MatchOf(db, file_info, file_info.part_number_index[k].rows[1])>>
                 \o PartNumberLoopNoNames(Tail(files), db, term, processed_files)

\* a variant that shows only the parts the stock table has in stock
RECURSIVE PartNumberLoopInStock(_, _, _, _)
PartNumberLoopInStock(files, db, term, processed_files) ==
    IF files = <<>> THEN <<>>
    ELSE LET file_info == Head(files)
             k == FirstKeyWith(file_info.part_number_index, term)
         IN IF file_info.simple_name \in processed_files \/ k = 0
            THEN PartNumberLoopInStock(Tail(files), db, term, processed_files)
            ELSE IF MatchOf(db, file_info, file_info.part_number_index[k].rows[1]).Stock = <<"0">>
            THEN PartNumberLoopInStock(Tail(files), db, term, processed_files)
            ELSE <<MatchOf(db, file_info, file_info.part_number_index[k].rows[1])>>
                 \o PartNumberLoopInStock(Tail(files), db, term,
                                          processed_files \cup {file_info.simple_name})

\* lines 478-518: the loop over the records, with the names already found
RECURSIVE PartNumberLoop(_, _, _, _)
PartNumberLoop(files, db, term, processed_files) ==
    IF files = <<>> THEN <<>>
    ELSE LET file_info == Head(files)
             k == FirstKeyWith(file_info.part_number_index, term)
         IN IF file_info.simple_name \in processed_files \/ k = 0
            THEN PartNumberLoop(Tail(files), db, term, processed_files)
            ELSE <<MatchOf(db, file_info, file_info.part_number_index[k].rows[1])>>
                 \o PartNumberLoop(Tail(files), db, term,
                                   processed_files \cup {file_info.simple_name})

search_part_number(files, db, search_term) ==
    LET search_term_upper == Upper(Strip(search_term))
    IN IF search_term_upper = <<>> THEN <<>>
       ELSE PartNumberLoop(files, db, search_term_upper, {})

\* lines 543-546: the rows indexed under a word of the term
FoundIndices(index, words) ==
    UNION {{DictGet(index, words[w])[i] : i \in 1..Len(DictGet(index, words[w]))} :
             w \in {x \in 1..Len(words) : HasKey(index, words[x])}}

SetMin(S) == CHOOSE x \in S : \A y \in S : x <= y

\* a variant that keeps one result for every record instead of every name
RECURSIVE PartNameLoopPerRecord(_, _, _, _)
PartNameLoopPerRecord(files, db, term, processed_files) ==
    IF files = <<>> THEN <<>>
    ELSE LET file_info == Head(files)
             found_indices == FoundIndices(file_info.part_name_index, Words(term))
             m == MatchOf(db, file_info, SetMin(found_indices))
         IN IF found_indices = {}
            THEN PartNameLoopPerRecord(Tail(files), db, term, processed_files)
            ELSE IF Contains(term, Upper(m.PartName))
            THEN <<m>> \o PartNameLoopPerRecord(Tail(files), db, term, processed_files)
            ELSE PartNameLoopPerRecord(Tail(files), db, term, processed_files)

\* lines 533-572: the loop over the records, with the names already found
RECURSIVE PartNameLoop(_, _, _, _)
PartNameLoop(files, db, term, processed_files) ==
    IF files = <<>> THEN <<>>
    ELSE LET file_info == Head(files)
             found_indices == FoundIndices(file_info.part_name_index, Words(term))
             idx == SetMin(found_indices)
             m == MatchOf(db, file_info, idx)
         IN IF file_info.simple_name \in processed_files \/ found_indices = {}
            THEN PartNameLoop(Tail(files), db, term, processed_files)
            ELSE IF Contains(term, Upper(m.PartName))
            THEN <<m>> \o PartNameLoop(Tail(files), db, term,
                                       processed_files \cup {file_info.simple_name})
            ELSE PartNameLoop(Tail(files), db, term, processed_files)

search_part_name(files, db, search_term) ==
    LET search_term_upper == Upper(Strip(search_term))
    IN IF search_term_upper = <<>> THEN <<>>
       ELSE PartNameLoop(files, db, search_term_upper, {})


\* ------------------------------------------------- bounds and inputs

\* changes of the files under data/ made from outside
MaxFsOps == 1
\* index builds started
MaxBuilds == 2
\* browser sessions after the first
MaxSessions == 1

\* the terms typed into the two search forms
Terms == { <<"X","1">>, <<" ","X","1","A"," ">>, <<"p","u","m","p">>,
           <<"o","i","l"," ","p","u","m","p">>, <<"p","u","m">>, <<"a","b">>, <<" ">> }

\* the layouts of data/ the application is started on
InitialDisks ==
    { [f \in AllFiles |-> IF f \in S \cup OtherFilesAll THEN 1 ELSE 0] :
        S \in { {}, {"f3"}, {"f1", "f2", "s2"} } }

\* the workbooks that are put under data/, taken away or written again while
\* the application runs: a workbook of data/ and one of data/stok/
ChangedFiles == {"f3", "s3"}

\* every set of the workbooks that can be read, for the searches
AllDisks ==
    { [f \in AllFiles |-> IF f \in S \cup OtherFilesAll THEN 1 ELSE 0] :
        S \in SUBSET (DataFilesAll \cup {"s1", "s2"}) }

\* ------------------------------------------------- the state

VARIABLES
    disk,               \* the version of every file under data/, 0 when it is not there
    cache,              \* .cache/: file hash -> pickled records
    excel_files,        \* st.session_state.excel_files
    stock_database,     \* st.session_state.stock_database
    last_index_time,    \* st.session_state.last_index_time, None before a build
    last_file_count,    \* st.session_state.last_file_count
    loaded_files_count, \* st.session_state.loaded_files_count
    search_results,     \* st.session_state.search_results
    search_type,        \* st.session_state.search_type
    search_term,        \* st.session_state.search_term
    pc,                 \* "idle", or "collecting" inside the as_completed loop
    pending,            \* the submitted files whose future is not collected yet
    current_file_count, \* len(all_files) of the running auto_load_excel_files
    now,                \* the clock datetime.now() reads
    fs_ops,             \* changes made to data/ so far
    sessions,           \* sessions started so far
    published,          \* history: excel_files as the last completed build left it
    last_call,          \* history: the last call of auto_load_excel_files
    idem,               \* history: the record lists a build and the next call left, data/ unchanged since that build
    stock_order,        \* history: the stock workbooks in the order the last load read them
    stock_published     \* history: stock_database as the last completed load left it

vars == <<disk, cache, excel_files, stock_database, last_index_time, last_file_count,
          loaded_files_count, search_results, search_type, search_term, pc, pending,
          current_file_count, now, fs_ops, sessions, published, last_call, idem,
          stock_order, stock_published>>

session_vars == <<excel_files, stock_database, last_index_time, last_file_count,
                  loaded_files_count, search_results, search_type, search_term>>

Range(q) == {q[i] : i \in 1..Len(q)}

\* lines 268-273: os.walk(data) with the extension filter
Discover(dsk) == {f \in AllFiles : dsk[f] # 0 /\ IsExcelName(FileName(f))}

\* lines 371-373: the workbooks of data/stok/
StockFolderFiles(dsk) == {f \in Discover(dsk) : FileDir(f) = "stok"}

\* the orders a directory listing can give the files of S in
Orders(S) == {q \in [1..Cardinality(S) -> S] : Range(q) = S}

\* lines 282-285
need_reindex(count, lfc, lit) == count # lfc \/ lit = None

\* every record a parse of the discovered files gives
ExpectedRecords(dsk) == UNION {Range(ParseFile(dsk, f)) : f \in Discover(dsk)}

NoCall == [made |-> FALSE, done |-> FALSE, stale |-> FALSE, expected |-> {}]

InitOn(disks) ==
    /\ disk \in disks
    /\ cache = <<>>
    /\ excel_files = <<>>
    /\ stock_database = <<>>
    /\ last_index_time = None
    /\ last_file_count = 0
    /\ loaded_files_count = 0
    /\ search_results = <<>>
    /\ search_type = None
    /\ search_term = None
    /\ pc = "idle"
    /\ pending = {}
    /\ current_file_count = 0
    /\ now = 0
    /\ fs_ops = 0
    /\ sessions = 0
    /\ published = <<>>
    /\ last_call = NoCall
    /\ idem = [runs |-> 0, first |-> <<>>, second |-> <<>>]
    /\ stock_order = <<>>
    /\ stock_published = <<>>

Init == InitOn(InitialDisks)

\* history of a call that returned without building
Returned(stale) ==
    /\ last_call' = [made |-> TRUE, done |-> TRUE, stale |-> stale,
                     expected |-> ExpectedRecords(disk)]
    /\ idem' = IF idem.runs = 0 THEN idem
               ELSE [runs |-> 2, first |-> idem.second, second |-> excel_files]

\* auto_load_excel_files up to the submission of the files (lines 261-304)
auto_load_excel_files ==
    LET all_files == Discover(disk)
        count == Cardinality(all_files)
        stale == need_reindex(count, last_file_count, last_index_time)
    IN IF all_files = {}
       THEN /\ last_file_count' = 0
            /\ Returned(stale)
            /\ UNCHANGED <<excel_files, stock_database, last_index_time, loaded_files_count,
                           pc, pending, current_file_count, now>>
       ELSE IF stale
       THEN /\ now < MaxBuilds
            /\ excel_files' = <<>>
            /\ pc' = "collecting"
            /\ pending' = all_files
            /\ current_file_count' = count
            /\ last_call' = [made |-> TRUE, done |-> FALSE, stale |-> TRUE,
                             expected |-> ExpectedRecords(disk)]
            /\ UNCHANGED <<stock_database, last_index_time, last_file_count,
                           loaded_files_count, now, idem>>
       ELSE /\ Returned(FALSE)
            /\ UNCHANGED <<excel_files, stock_database, last_index_time, last_file_count,
                           loaded_files_count, pc, pending, current_file_count, now>>

\* a widget of the page is used in a script run whose __init__ (lines 137-139)
\* found nothing to load
CanSearch ==
    /\ pc = "idle"
    /\ \/ excel_files # <<>>
       \/ Discover(disk) = {} /\ last_file_count = 0
       \/ /\ Discover(disk) # {}
          /\ ~need_reindex(Cardinality(Discover(disk)), last_file_count, last_index_time)

\* __init__ of a script run (lines 137-139)
AppInit ==
    /\ pc = "idle"
    /\ excel_files = <<>>
    /\ auto_load_excel_files
    /\ UNCHANGED <<disk, cache, search_results, search_type, search_term, fs_ops,
                   sessions, published, stock_order, stock_published>>

\* a variant of the button that always builds the index again
RefreshDataRebuilds ==
    /\ CanSearch
    /\ Discover(disk) # {}
    /\ now < MaxBuilds
    /\ cache' = <<>>
    /\ excel_files' = <<>>
    /\ pc' = "collecting"
    /\ pending' = Discover(disk)
    /\ current_file_count' = Cardinality(Discover(disk))
    /\ last_call' = [made |-> TRUE, done |-> FALSE, stale |-> TRUE,
                     expected |-> ExpectedRecords(disk)]
    /\ UNCHANGED <<disk, stock_database, last_index_time, last_file_count,
                   loaded_files_count, now, idem, search_results, search_type,
                   search_term, fs_ops, sessions, published, stock_order, stock_published>>

\* the "Refresh Data" button (lines 587-595)
RefreshData ==
    /\ CanSearch
    /\ cache' = <<>>
    /\ auto_load_excel_files
    /\ UNCHANGED <<disk, search_results, search_type, search_term, fs_ops,
                   sessions, published, stock_order, stock_published>>

\* one turn of the as_completed loop (lines 307-328): the worker of file f has
\* run process_single_file and its records are appended
CollectResult(f) ==
    /\ pc = "collecting"
    /\ f \in pending
    /\ LET r == process_single_file(disk, cache, f)
       IN /\ cache' = r.cache
          /\ excel_files' = excel_files \o r.results
    /\ pending' = pending \ {f}
    /\ UNCHANGED <<disk, stock_database, last_index_time, last_file_count,
                   loaded_files_count, search_results, search_type, search_term, pc,
                   current_file_count, now, fs_ops, sessions, published, last_call, idem,
                   stock_order, stock_published>>

\* lines 330-336: the end of the build, with the stock table loaded
FinishRebuild ==
    /\ pc = "collecting"
    /\ pending = {}
    /\ loaded_files_count' = Len(excel_files)
    /\ last_file_count' = current_file_count
    /\ now' = now + 1
    /\ last_index_time' = <<now + 1>>
    /\ \E stock_files \in Orders(StockFolderFiles(disk)) :
          /\ stock_database' = load_stock_database(disk, stock_files)
          /\ stock_order' = stock_files
    /\ stock_published' = stock_database'
    /\ pc' = "idle"
    /\ published' = excel_files
    /\ last_call' = [last_call EXCEPT !.done = TRUE]
    /\ idem' = IF idem.runs = 0
               THEN [runs |-> 1, first |-> <<>>, second |-> excel_files]
               ELSE [runs |-> 2, first |-> idem.second, second |-> excel_files]
    /\ UNCHANGED <<disk, cache, excel_files, search_results, search_type, search_term,
                   pending, current_file_count, fs_ops, sessions>>

\* lines 383-390 and 431-433: the stock workbook cannot be read as one
StockFileFails(dsk, f) ==
    LET wb == Workbook(f, dsk[f])
    IN IF dsk[f] = 0 \/ ~wb.readable \/ wb.sheets = <<>> THEN TRUE
       ELSE wb.sheets[1].ncols < 4

\* The script run is stopped inside load_stock_database: lines 331-333 have run
\* and the table is reset (line 365); the st.sidebar.warning of line 432, made
\* for a workbook that cannot be read, raises when the user has interacted, and
\* the except clauses of lines 431, 440 and 341 do not catch it.  The workbooks
\* listed before the failed one are in the table, those after it are not
InterruptStockLoad ==
    /\ pc = "collecting"
    /\ pending = {}
    /\ loaded_files_count' = Len(excel_files)
    /\ last_file_count' = current_file_count
    /\ now' = now + 1
    /\ last_index_time' = <<now + 1>>
    /\ \E stock_files \in Orders(StockFolderFiles(disk)) :
          \E k \in 1..Len(stock_files) :
             /\ StockFileFails(disk, stock_files[k])
             /\ stock_database' = load_stock_database(disk, SubSeq(stock_files, 1, k))
             /\ stock_order' = SubSeq(stock_files, 1, k)
    /\ pc' = "idle"
    /\ published' = excel_files
    /\ last_call' = [last_call EXCEPT !.done = TRUE]
    /\ idem' = IF idem.runs = 0
               THEN [runs |-> 1, first |-> <<>>, second |-> excel_files]
               ELSE [runs |-> 2, first |-> idem.second, second |-> excel_files]
    /\ UNCHANGED <<disk, cache, excel_files, search_results, search_type, search_term,
                   pending, current_file_count, fs_ops, sessions, stock_published>>

\* the cache the workers still running leave behind
RECURSIVE CacheAfter(_, _, _)
CacheAfter(dsk, cch, files) ==
    IF files = {} THEN cch
    ELSE LET f == CHOOSE x \in files : TRUE
         IN CacheAfter(dsk, process_single_file(dsk, cch, f).cache, files \ {f})

\* The script run is stopped inside the loop (a st.* call of lines 310-311 raises
\* when the user interacts; line 341 catches any other error): the executor still
\* waits for its workers, but nothing after the loop runs
Interrupt ==
    /\ pc = "collecting"
    /\ pending # {}
    /\ cache' = CacheAfter(disk, cache, pending)
    /\ pending' = {}
    /\ pc' = "idle"
    /\ idem' = [runs |-> 0, first |-> <<>>, second |-> <<>>]
    /\ UNCHANGED <<disk, session_vars, current_file_count, now, fs_ops, sessions,
                   published, last_call, stock_order, stock_published>>

SearchPartNumber(term) ==
    /\ CanSearch
    /\ search_results' = search_part_number(excel_files, stock_database, term)
    /\ search_type' = "Part Number"
    /\ search_term' = term
    /\ UNCHANGED <<disk, cache, excel_files, stock_database, last_index_time,
                   last_file_count, loaded_files_count, pc, pending, current_file_count,
                   now, fs_ops, sessions, published, last_call, idem, stock_order, stock_published>>

SearchPartName(term) ==
    /\ CanSearch
    /\ search_results' = search_part_name(excel_files, stock_database, term)
    /\ search_type' = "Part Name"
    /\ search_term' = term
    /\ UNCHANGED <<disk, cache, excel_files, stock_database, last_index_time,
                   last_file_count, loaded_files_count, pc, pending, current_file_count,
                   now, fs_ops, sessions, published, last_call, idem, stock_order, stock_published>>

\* the files under data/ change between two script runs
FsChange(f, v) ==
    /\ pc = "idle"
    /\ fs_ops < MaxFsOps
    /\ disk[f] # v
    /\ disk' = [disk EXCEPT ![f] = v]
    /\ fs_ops' = fs_ops + 1
    /\ idem' = [runs |-> 0, first |-> <<>>, second |-> <<>>]
    /\ UNCHANGED <<cache, session_vars, pc, pending, current_file_count, now, sessions,
                   published, last_call, stock_order, stock_published>>

AddFile(f) == disk[f] = 0 /\ FsChange(f, 1)

RemoveFile(f) == disk[f] # 0 /\ FsChange(f, 0)

ModifyFile(f) == disk[f] # 0 /\ \E v \in 1..NumVersions(f) : FsChange(f, v)

\* the files .cache/ can hold: one for every hash of a file under data/
CacheFiles ==
    {<<f, FileStat(f, v).st_size, FileStat(f, v).st_mtime>> :
        f \in AllFiles, v \in 1..2}

\* a file of .cache/ is damaged between two script runs (lines 160-164 take
\* it for a miss)
CorruptEntry(h) ==
    /\ pc = "idle"
    /\ fs_ops < MaxFsOps
    /\ h \in DOMAIN cache
    /\ cache[h] # Corrupt
    /\ cache' = [cache EXCEPT ![h] = Corrupt]
    /\ fs_ops' = fs_ops + 1
    /\ UNCHANGED <<disk, session_vars, pc, pending, current_file_count, now, sessions,
                   published, last_call, idem, stock_order, stock_published>>

\* a new browser session: line 126 finds an empty session state; .cache/ stays
NewSession ==
    /\ pc = "idle"
    /\ sessions < MaxSessions
    /\ sessions' = sessions + 1
    /\ excel_files' = <<>>
    /\ stock_database' = <<>>
    /\ last_index_time' = None
    /\ last_file_count' = 0
    /\ loaded_files_count' = 0
    /\ search_results' = <<>>
    /\ search_type' = None
    /\ search_term' = None
    /\ published' = <<>>
    /\ last_call' = NoCall
    /\ stock_order' = <<>>
    /\ stock_published' = <<>>
    /\ UNCHANGED <<disk, cache, pc, pending, current_file_count, now, fs_ops, idem>>

Next ==
    \/ AppInit
    \/ RefreshData
    \/ \E f \in AllFiles : CollectResult(f)
    \/ FinishRebuild
    \/ Interrupt
    \/ InterruptStockLoad
    \/ \E f \in ChangedFiles : AddFile(f)
    \/ \E f \in ChangedFiles : RemoveFile(f)
    \/ \E f \in ChangedFiles : ModifyFile(f)
    \/ \E h \in CacheFiles : CorruptEntry(h)
    \/ NewSession

Spec == Init /\ [][Next]_vars

\* The builds and the cache, on layouts with a workbook that cannot be opened
BuildDisks ==
    { [f \in AllFiles |-> IF f \in S \cup OtherFilesAll THEN 1 ELSE 0] :
        S \in { {"f3", "s2"}, {"f1", "s3"} } }

BuildInit == InitOn(BuildDisks)

BuildSpec == BuildInit /\ [][Next]_vars

\* The searches, over the index built from any layout of data/
SearchInit == InitOn(AllDisks)

SearchNext ==
    \/ AppInit
    \/ \E f \in AllFiles : CollectResult(f)
    \/ FinishRebuild
    \/ \E term \in Terms : SearchPartNumber(term)
    \/ \E term \in Terms : SearchPartName(term)

SearchSpec == SearchInit /\ [][SearchNext]_vars


\* ------------------------------------------------- properties

\* C1: the record list is published atomically: from the start of a build until
\* all submitted files are collected, and for every reader after it (the state
\* is idle), the list is the complete list of the last completed build
C1_AtomicPublish == (pc = "idle" \/ pending # {}) => excel_files = published

\* C2: after a call of auto_load_excel_files that found the file count changed
\* (a drop to zero included) or no build done yet, the record list holds exactly
\* the records of the files this call discovered
C2_ReplacedWholesale ==
    (last_call.made /\ last_call.done /\ last_call.stale)
        => Range(excel_files) = last_call.expected

\* C3: a build and a later call of auto_load_excel_files, with no change of
\* the files since that build, leave record lists on which every search gives
\* the same Matches (compared as sets, the order of the result rows left aside)
C3_Idempotent ==
    idem.runs = 2 =>
        \A term \in Terms :
            /\ Range(search_part_number(idem.first, stock_database, term))
                 = Range(search_part_number(idem.second, stock_database, term))
            /\ Range(search_part_name(idem.first, stock_database, term))
                 = Range(search_part_name(idem.second, stock_database, term))


\* ---- the searches, stated on the cells of the records

\* case-insensitive "contains"
CIContains(term, text) == Contains(Lower(term), Lower(text))

Blank(term) == Strip(term) = <<>>

\* the 0-based positions of the rows of a record whose cell contains the trimmed term
PartNumberRows(rec, term) ==
    {p \in 0..(Len(rec.dataframe) - 1) :
        /\ rec.dataframe[p + 1].part_number # NaN
        /\ CIContains(Strip(term), rec.dataframe[p + 1].part_number)}

PartNameRows(rec, term) ==
    {p \in 0..(Len(rec.dataframe) - 1) :
        /\ rec.dataframe[p + 1].part_name # NaN
        /\ CIContains(Strip(term), rec.dataframe[p + 1].part_name)}

\* the Match m was made from the record rec
FromRecord(m, rec) == m.Path = rec.relative_path /\ m.Sheet = rec.sheet

Records == 1..Len(excel_files)

SameName(a, b) == excel_files[a].simple_name = excel_files[b].simple_name

ByNumber(term) == search_part_number(excel_files, stock_database, term)

ByName(term) == search_part_name(excel_files, stock_database, term)

\* the form has been submitted and its results are those of the present index
SearchedByNumber ==
    /\ search_type = "Part Number"
    /\ search_results = ByNumber(search_term)

SearchedByName ==
    /\ search_type = "Part Name"
    /\ search_results = ByName(search_term)

\* C4: a part number search gives at most one Match for a simplified file
\* name, and a name with several matching records gives exactly one Match, made
\* from the first of them in the order of the record list
C4_OnePerSimpleName ==
    \A term \in Terms :
        LET ms == ByNumber(term)
        IN /\ \A i, j \in 1..Len(ms) : i # j => ms[i].File # ms[j].File
           /\ \A r \in Records :
                LET group == {k \in Records :
                                SameName(k, r) /\ PartNumberRows(excel_files[k], term) # {}}
                    first == CHOOSE k \in group : \A l \in group : k <= l
                IN (~Blank(term) /\ group # {}) =>
                      /\ Cardinality({i \in 1..Len(ms) :
                                        ms[i].File = excel_files[r].simple_name}) = 1
                      /\ \E i \in 1..Len(ms) : FromRecord(ms[i], excel_files[first])

\* two files of one simplified name, and two sheets of one file, match the
\* term that was searched, and one Match stands for the name
C4_Witness ==
    /\ SearchedByNumber
    /\ \E a, b, c \in Records :
          /\ SameName(a, b) /\ SameName(a, c)
          /\ excel_files[a].file_name # excel_files[b].file_name
          /\ excel_files[a].file_name = excel_files[c].file_name /\ a # c
          /\ \A k \in {a, b, c} : PartNumberRows(excel_files[k], search_term) # {}
          /\ Cardinality({i \in 1..Len(search_results) :
                            search_results[i].File = excel_files[a].simple_name}) = 1

\* C5: a part name search gives a Match for a record that no earlier Match of
\* its name has excluded if and only if a row of the record holds the whole
\* term in its part name cell
C5_PartNameIffSubstring ==
    \A term \in Terms :
        ~Blank(term) =>
            LET ms == ByName(term)
                Emitted(r) == \E i \in 1..Len(ms) : FromRecord(ms[i], excel_files[r])
                Excluded(r) == \E k \in Records : k < r /\ SameName(k, r) /\ Emitted(k)
            IN \A r \in Records :
                  ~Excluded(r) => (Emitted(r) <=> PartNameRows(excel_files[r], term) # {})

\* C6: a part number search gives a Match for a simplified name if and only if
\* a row of a record of that name holds the trimmed term in its part number
\* cell, case left aside; every Match shows such a row, with its Excel row the
\* position of the row plus 2
C6_PartNumberSubstring ==
    \A term \in Terms :
        ~Blank(term) =>
            LET ms == ByNumber(term)
            IN /\ \A r \in Records :
                    (\E i \in 1..Len(ms) : ms[i].File = excel_files[r].simple_name)
                      <=> (\E k \in Records :
                             SameName(k, r) /\ PartNumberRows(excel_files[k], term) # {})
               /\ \A i \in 1..Len(ms) :
                    \E k \in Records :
                       \E p \in PartNumberRows(excel_files[k], term) :
                          /\ FromRecord(ms[i], excel_files[k])
                          /\ ms[i].File = excel_files[k].simple_name
                          /\ ms[i].ExcelRow = p + 2
                          /\ ms[i].PartNumber = excel_files[k].dataframe[p + 1].part_number
                          /\ CIContains(Strip(term), ms[i].PartNumber)

\* a search has found a row below the first one by a part of its part number,
\* written in the other case
C6_Witness ==
    /\ SearchedByNumber
    /\ \E i \in 1..Len(search_results) :
          /\ search_results[i].ExcelRow > 2
          /\ ~Contains(Strip(search_term), search_results[i].PartNumber)
          /\ Upper(Strip(search_results[i].PartNumber)) # Upper(Strip(search_term))

\* C7 as written: every record with a matching row gives its own Match of a part
\* name search, and no record gives more than one
C7_OnePerRecord ==
    \A term \in Terms :
        ~Blank(term) =>
            LET ms == ByName(term)
            IN \A r \in Records :
                  LET own == {i \in 1..Len(ms) : FromRecord(ms[i], excel_files[r])}
                  IN /\ Cardinality(own) <= 1
                     /\ PartNameRows(excel_files[r], term) # {} => Cardinality(own) = 1

\* C7 amended: a part name search keeps one Match for a simplified file name,
\* as the part number search does: no two Matches carry one File label, so no
\* record gives two, and every Match shows a row of its record whose part name
\* holds the term
C7_OnePerSimpleNameByName ==
    \A term \in Terms :
        LET ms == ByName(term)
        IN /\ \A i, j \in 1..Len(ms) : i # j => ms[i].File # ms[j].File
           /\ \A r \in Records :
                 Cardinality({i \in 1..Len(ms) : FromRecord(ms[i], excel_files[r])}) <= 1
           /\ \A i \in 1..Len(ms) :
                 \E k \in Records :
                    \E p \in PartNameRows(excel_files[k], term) :
                       /\ FromRecord(ms[i], excel_files[k])
                       /\ ms[i].File = excel_files[k].simple_name
                       /\ ms[i].ExcelRow = p + 2
                       /\ ms[i].PartName = excel_files[k].dataframe[p + 1].part_name

\* two records of one simplified name hold the term that was searched, and the
\* result list has one Match of that name
C7_Witness ==
    /\ SearchedByName
    /\ \E a, b \in Records :
          /\ a # b /\ SameName(a, b)
          /\ PartNameRows(excel_files[a], search_term) # {}
          /\ PartNameRows(excel_files[b], search_term) # {}
          /\ Cardinality({i \in 1..Len(search_results) :
                            search_results[i].File = excel_files[a].simple_name}) = 1


\* ---- the stock table, stated on the rows of the stock workbooks

\* the queries of a stock lookup
LookupQueries ==
    { <<"x","1">>, <<" ","x","1"," ">>, <<"0","1",".","x","1">>, <<"x">>, <<"x","1","2">>,
      <<"y","2">>, <<"N","/","A">>, <<"0",".","n","/","a">>, <<>> }

\* the key of a first cell: trimmed, cut after its last dot, trimmed, in upper case
NormalizedKey(cell) ==
    LET t == Strip(cell)
        dots == {i \in 1..Len(t) : t[i] = "."}
        lastDot == IF dots = {} THEN 0 ELSE CHOOSE i \in dots : \A j \in dots : j <= i
    IN Strip(Upper(SubSeq(t, lastDot + 1, Len(t))))

HeaderLike(cell) ==
    \E i \in 1..Len(skip_keywords) : Contains(skip_keywords[i], Lower(cell))

\* the rows of the workbooks that can be read as stock workbooks, in the order read
RECURSIVE StockRowsInOrder(_, _)
StockRowsInOrder(dsk, order) ==
    IF order = <<>> THEN <<>>
    ELSE LET f == Head(order)
             usable == /\ dsk[f] # 0
                       /\ Workbook(f, dsk[f]).readable
                       /\ Workbook(f, dsk[f]).sheets # <<>>
                       /\ Workbook(f, dsk[f]).sheets[1].ncols >= 4
         IN (IF usable THEN Workbook(f, dsk[f]).sheets[1].rows ELSE <<>>)
            \o StockRowsInOrder(dsk, Tail(order))

\* the table the rows stand for: the rows with a blank or header-like first
\* cell or an empty key are dropped, and the last row of a key gives its value
ReferenceTable(rows) ==
    LET kept == {i \in 1..Len(rows) :
                    /\ rows[i][1] # NaN
                    /\ Strip(rows[i][1]) # <<>>
                    /\ ~HeaderLike(rows[i][1])
                    /\ NormalizedKey(rows[i][1]) # <<>>}
        keys == {NormalizedKey(rows[i][1]) : i \in kept}
        lastOf(k) == CHOOSE i \in kept :
                        /\ NormalizedKey(rows[i][1]) = k
                        /\ \A j \in kept : NormalizedKey(rows[j][1]) = k => j <= i
    IN [k \in keys |-> IF rows[lastOf(k)][4] = NaN THEN <<"0">>
                       ELSE Strip(rows[lastOf(k)][4])]

\* C8 as written: a lookup returns the value stored under the key the table
\* was built with (trimmed, cut after the last dot, upper case), "0" without one
C8_LookupNormalized ==
    \A q \in LookupQueries :
        get_stock_from_database(stock_database, q)
          = IF NormalizedKey(q) \in DOMAIN stock_database
            THEN stock_database[NormalizedKey(q)] ELSE <<"0">>

\* C8 amended: a lookup trims the query and puts it in upper case, and cuts
\* nothing off at a dot: it returns the value of the one key that equals the
\* trimmed query, case left aside, and "0" when there is none, when the query is
\* empty or when it is the text "N/A"; a key that only contains the query, or
\* is contained in it, gives nothing
C8_LookupExact ==
    \A q \in LookupQueries :
        LET hits == {k \in DOMAIN stock_database : Lower(k) = Lower(Strip(q))}
        IN get_stock_from_database(stock_database, q)
             = IF q # <<>> /\ q # NA /\ hits # {}
               THEN stock_database[CHOOSE k \in hits : TRUE] ELSE <<"0">>

\* a search has joined a stock value other than "0" to a row whose part number
\* is a key of the table, while a longer and a shorter key are near it
C8_Witness ==
    /\ search_results # <<>>
    /\ (SearchedByNumber \/ SearchedByName)
    /\ \E i \in 1..Len(search_results) :
          /\ Upper(Strip(search_results[i].PartNumber)) \in DOMAIN stock_database
          /\ search_results[i].Stock # <<"0">>
          /\ search_results[i].Stock
               = stock_database[Upper(Strip(search_results[i].PartNumber))]
    /\ <<"Y","2">> \in DOMAIN stock_database
    /\ <<"N","/","A">> \in DOMAIN stock_database

\* C9: the stock table of a load is the table its rows stand for, the rows of
\* all stock workbooks taken in the order they were read
C9_StockTableFold ==
    last_index_time # None =>
        stock_database = ReferenceTable(StockRowsInOrder(disk, stock_order))

\* two stock workbooks were read, both with the key X1, and rows were dropped
C9_Witness ==
    /\ last_index_time # None
    /\ Len(stock_order) = 2
    /\ LET rows == StockRowsInOrder(disk, stock_order)
       IN /\ Cardinality({i \in 1..Len(rows) :
                            rows[i][1] # NaN /\ NormalizedKey(rows[i][1]) = <<"X","1">>}) = 2
          /\ \E i \in 1..Len(rows) : rows[i][1] # NaN /\ HeaderLike(rows[i][1])
          /\ \E i \in 1..Len(rows) : rows[i][1] = NaN
          /\ Cardinality(DOMAIN stock_database) < Len(rows)
    /\ stock_database[<<"X","1">>] = <<"4","2">>

\* the stock tables a search is run against beside the loaded one
OtherStockTables ==
    { <<>>,
      (<<"X","1">> :> <<"0">>) @@ (<<"X","1","A">> :> <<"3">>),
      (<<"X","1","2">> :> <<"1">>) @@ (<<"Y","2">> :> <<"2">>) }

NoStock(ms) == [i \in 1..Len(ms) |-> [ms[i] EXCEPT !.Stock = <<>>]]

\* C10: the result lists of a search against two stock tables are the same in
\* length, in order and in every field but Stock
C10_StockJoinPurity ==
    \A term \in Terms :
        \A db \in OtherStockTables :
            /\ NoStock(search_part_number(excel_files, db, term)) = NoStock(ByNumber(term))
            /\ NoStock(search_part_name(excel_files, db, term)) = NoStock(ByName(term))

\* a search has joined stock values that another table gives differently
C10_Witness ==
    /\ (SearchedByNumber \/ SearchedByName)
    /\ search_results # <<>>
    /\ \E db \in OtherStockTables :
          /\ search_type = "Part Number"
                => search_results # search_part_number(excel_files, db, search_term)
          /\ search_type = "Part Name"
                => search_results # search_part_name(excel_files, db, search_term)
          /\ \E i \in 1..Len(search_results) : search_results[i].Stock # <<"0">>


\* ---- the build, stated on the workbooks on disk

\* the records of excel_files made from file f
RecordsOf(f) ==
    {rec \in Range(excel_files) : rec.relative_path = <<FileDir(f), FileName(f)>>}

\* the file cannot be opened as a workbook
Unopenable(dsk, f) == ~Workbook(f, dsk[f]).readable

\* the sheets of the file that hold the columns B, D and E
GoodSheets(dsk, f) ==
    LET sh == Workbook(f, dsk[f]).sheets
    IN {sh[i] : i \in {j \in 1..Len(sh) : sh[j].ncols >= 5}}

\* C11: in a build every collected file that cannot be opened has given no
\* record, and every other collected file has given one record for each of its
\* sheets that holds the columns, and none for a sheet that does not, whatever
\* the other files of the build are
C11_FailureIsolation ==
    pc = "collecting" =>
        /\ \A f \in Discover(disk) \ pending :
              IF Unopenable(disk, f) THEN RecordsOf(f) = {}
              ELSE /\ \A sheet \in GoodSheets(disk, f) :
                         \E rec \in RecordsOf(f) :
                            /\ rec.sheet = sheet.name
                            /\ rec.row_count = Len(sheet.rows)
                            /\ \A i \in 1..Len(sheet.rows) :
                                  /\ rec.dataframe[i].part_number = sheet.rows[i][2]
                                  /\ rec.dataframe[i].part_name = sheet.rows[i][4]
                   /\ \A rec \in RecordsOf(f) :
                         \E sheet \in GoodSheets(disk, f) : rec.sheet = sheet.name

\* a build has collected a workbook that cannot be opened and a workbook with a
\* sheet that cannot be parsed, and holds the records of the other sheets
C11_Witness ==
    /\ pc = "collecting"
    /\ pending = {}
    /\ "s3" \in Discover(disk)
    /\ "f1" \in Discover(disk)
    /\ RecordsOf("s3") = {}
    /\ {rec.sheet : rec \in RecordsOf("f1")} = {"S1", "S2"}
    /\ RecordsOf("f3") # {}

\* C12: the records a build has collected are those of the present size and
\* modification time of their files: none comes from a cache entry stored for
\* another version of the file, and an entry that cannot be read gives none
C12_CacheCorrect ==
    /\ pc = "collecting" =>
          \A f \in Discover(disk) \ pending :
              \A rec \in RecordsOf(f) :
                 /\ rec.last_modified = FileStat(f, disk[f]).st_mtime
                 /\ \E sheet \in GoodSheets(disk, f) :
                       /\ rec.sheet = sheet.name
                       /\ rec.dataframe = ReadColumns(sheet)
    /\ \A h \in DOMAIN cache :
          cache[h] # Corrupt =>
             \A i \in 1..Len(cache[h]) :
                /\ cache[h][i].file_name = FileName(h[1])
                /\ cache[h][i].last_modified = h[3]

\* a build has parsed the second version of a workbook while the entry of its
\* first version lies in the cache
C12_Witness ==
    /\ pc = "collecting"
    /\ disk["f3"] = 2
    /\ "f3" \notin pending
    /\ get_file_hash([disk EXCEPT !["f3"] = 1], "f3") \in DOMAIN cache
    /\ RecordsOf("f3") # {}

\* the staleness rule on the files now under data/
Stale == need_reindex(Cardinality(Discover(disk)), last_file_count, last_index_time)

\* C13: a press of "Refresh Data" leaves the cache store empty; when the
\* staleness rule does not hold, the record list, the recorded counts, the time
\* of the last build and the stock table are as before and no build starts; a
\* build starts after it only when the rule holds
C13_ClearCacheNoRebuild ==
    [][RefreshData =>
          /\ cache' = <<>>
          /\ ~Stale => UNCHANGED <<excel_files, loaded_files_count, last_file_count,
                                   last_index_time, stock_database, pc, pending>>
          /\ pc' = "collecting" => Stale]_vars

\* the cache has been cleared under an index that was built before and still
\* stands as built
C13_Witness ==
    /\ pc = "idle"
    /\ cache = <<>>
    /\ excel_files # <<>>
    /\ excel_files = published
    /\ last_index_time # None
    /\ last_call.made /\ last_call.done /\ ~last_call.stale
    /\ stock_database # <<>>

\* C14: the stock table a reader finds is a complete table: the one the last
\* completed load has left, or the one a load of the workbooks now in data/stok/
\* gives, never one reset to empty or filled in part
C14_StockAtomic ==
    \/ stock_database = stock_published
    \/ \E stock_files \in Orders(StockFolderFiles(disk)) :
          stock_database = load_stock_database(disk, stock_files)

\* C15: a build that has started runs to its end: it stops collecting only
\* when every submitted file is collected, and then the recorded file count is
\* the discovered count and the time of the build is set
C15_RunsToCompletion ==
    [][(pc = "collecting" /\ pc' # "collecting") =>
          /\ pending = {}
          /\ last_call'.done
          /\ last_file_count' = current_file_count
          /\ last_index_time' # None]_vars

\* the record list a build leaves when its workers complete in the given order
RECURSIVE RecordsInOrder(_, _)
RecordsInOrder(dsk, order) ==
    IF order = <<>> THEN <<>>
    ELSE ParseFile(dsk, Head(order)) \o RecordsInOrder(dsk, Tail(order))

\* C16: the Matches of a search on the index a build has left are those of the
\* search on the index of the same files collected in any other order
C16_OrderIndependent ==
    (pc = "idle" /\ last_call.done) =>
        \A order \in Orders(Discover(disk)) :
            \A term \in Terms :
                /\ Range(search_part_number(RecordsInOrder(disk, order), stock_database, term))
                     = Range(ByNumber(term))
                /\ Range(search_part_name(RecordsInOrder(disk, order), stock_database, term))
                     = Range(ByName(term))

\* C17: no workbook of data/stok/ is among the files a build submits, none has
\* given a record or a Match, and the file count of the build is that of the
\* workbooks outside data/stok/
C17_StockSeparate ==
    /\ pc = "collecting" =>
          /\ pending \cap StockFolderFiles(disk) = {}
          /\ current_file_count = Cardinality(Discover(disk) \ StockFolderFiles(disk))
    /\ \A i \in 1..Len(excel_files) : excel_files[i].relative_path[1] # "stok"
    /\ \A i \in 1..Len(search_results) : search_results[i].Path[1] # "stok"
====
